---- MODULE Spec2Model ----
(***************************************************************************)
(* A model of hypr-recorder's capture Recorder (src/src/recorder.rs):      *)
(* start(), stop(), cancel(), the shared finish(discard) routine, the      *)
(* build_pipeline() negotiation with the portal, and the timeout watcher   *)
(* that start() spawns. The caller's position inside a method is pc; the   *)
(* watcher of each start attempt is a task of its own that may take a step *)
(* between any two steps of the caller.                                    *)
(***************************************************************************)
EXTENDS Integers, Sequences, FiniteSets, TLC

\* ------------------------------------------------------------- bounds
\* start() attempts that get past the is_recording check.
MaxAttempts == 2
\* SystemTime::now().elapsed() is the time between two adjacent clock reads:
\* 0 ms, rarely more. The timestamp in the file name is in 0..MaxElapsedMs.
MaxElapsedMs == 0
\* Length of the stream list the portal grants.
MaxStreams == 2
\* Samples the input callback appends before the model stops counting.
MaxSamples == 2

Attempts == 1..MaxAttempts
Timestamps == 0..MaxElapsedMs
\* "capture_{timestamp}.mp4" under a fixed directory: one path per timestamp,
\* numbered from 1 so that 0 can stand for None.
PathOf(timestamp) == timestamp + 1
Paths == {PathOf(t) : t \in Timestamps}
None == 0

SourceTypes == {"Monitor", "Window", "Virtual"}

\* A granted stream: its optional source type and what its optional id is
\* ("none": no id, "audio": an id containing "audio", "other": any other id).
StreamTypes == SourceTypes \cup {"None"}
StreamIds == {"none", "audio", "other"}
Streams == [source_type : StreamTypes, id : StreamIds]
\* The lists the portal grants in the lifecycle model: typed streams, and
\* untyped streams with either kind of id.
GrantedStreams ==
  {s \in Streams : (s.source_type # "None" => s.id = "none") /\
                   (s.source_type = "None" => s.id # "none")}
RECURSIVE ListsUpTo(_, _)
ListsUpTo(S, n) ==
  IF n = 0 THEN {<<>>}
  ELSE LET shorter == ListsUpTo(S, n - 1)
       IN shorter \cup {Append(l, s) : l \in {x \in shorter : Len(x) = n - 1}, s \in S}
GrantedLists == ListsUpTo(GrantedStreams, MaxStreams)

\* ------------------------------------------------------------- state
VARIABLES
  \* struct Recorder
  pipeline, session, remote_fd, recording_path, is_recording, start_time,
  timeout_task,
  \* the world: the live watcher tasks, the files, the live pipelines
  task, file, owner, pipeState, pipePath, opened,
  \* the caller: its position, the public call it is in, the number of start
  \* attempts so far, and the locals of the call
  pc, op, cur, frame,
  \* what the last public call returned, what its finish() returned, and the
  \* branch it left by
  ret, ret_path, fin, fin_path, branch,
  \* history of the current call: the fields at its entry, the teardown work
  \* it has done, the errors it has swallowed, the resources it has dropped
  \* without tearing them down
  entry, work, ignored, dropped,
  \* history of the last recording started: how often each of its resources
  \* was torn down, whether the flag was ever set, its true->false
  \* transitions since it was last set, the watcher that printed the auto-stop
  torn, activated, flips, logged,
  \* struct AudioRecorder (src/src/audio.rs), the watcher tasks its start()
  \* spawned, the input streams it built, and its caller: position, public
  \* call, number of start attempts, result and samples returned
  audio, audio_task, streamState, acall,
  \* the audio-only program (src/src/main.rs) and its KeyHandler
  \* (src/src/input.rs): the position of main, the handler's fields, the
  \* bindings the compositor holds, the content of the temporary file, the
  \* position of the wait_for_input future, and the history of the run
  keys

recorderVars == <<pipeline, session, remote_fd, recording_path, is_recording,
                  start_time, timeout_task>>
pipeVars == <<pipeState, pipePath, opened>>
fileVars == <<file, owner>>
worldVars == <<task, fileVars, pipeVars>>
callVars == <<pc, op, cur, frame>>
resultVars == <<ret, ret_path, fin, fin_path, branch>>
callHist == <<entry, work, ignored, dropped>>
recHist == <<torn, activated, flips, logged>>
histVars == <<callHist, recHist>>
captureVars == <<recorderVars, worldVars, callVars, resultVars, histVars>>
audioVars == <<audio, audio_task, streamState, acall>>
keyVars == <<keys>>
vars == <<captureVars, audioVars, keyVars>>

\* The Recorder's fields, as one value.
Fields ==
  [pipeline |-> pipeline, session |-> session, remote_fd |-> remote_fd,
   recording_path |-> recording_path, is_recording |-> is_recording,
   start_time |-> start_time, timeout_task |-> timeout_task]

\* The locals of start()/build_pipeline()/create_pipeline() and of finish(),
\* before any is set.
NoLocals ==
  [output_path |-> None, session |-> None, remote_fd |-> None,
   pipeline |-> None, video_fd |-> None, audio_fd |-> None,
   stages |-> [video |-> None, audio |-> None],
   available_types |-> {}, requested_types |-> {},
   err |-> [kind |-> "none", no_streams |-> FALSE],
   streams |-> <<>>, audio_stream |-> FALSE,
   discard |-> FALSE, was_recording |-> FALSE, taken |-> None, msg |-> "none",
   path |-> None]

\* No resource of the recording has been torn down.
NotTorn == [pipeline |-> 0, session |-> 0, remote_fd |-> 0]

\* The caller of the AudioRecorder between two calls, before the first.
NoCall ==
  [pc |-> "idle", op |-> "none", cur |-> 0, ret |-> "none", samples |-> 0,
   trigger |-> "none"]

\* AudioRecorder::new
AudioInit ==
  /\ audio = [samples |-> 0, is_recording |-> FALSE, stream |-> None,
              timeout_task |-> None]
  /\ audio_task = [r \in Attempts |-> "none"]
  /\ streamState = [r \in Attempts |-> "none"]
  /\ acall = NoCall

\* Recorder::new
CaptureInit ==
  /\ pipeline = None /\ session = None /\ remote_fd = None
  /\ recording_path = None /\ is_recording = FALSE /\ start_time = None
  /\ timeout_task = None
  /\ task = [r \in Attempts |-> "none"]
  /\ file = [p \in Paths |-> "absent"]
  /\ owner = [p \in Paths |-> None]
  /\ pipeState = [r \in Attempts |-> "none"]
  /\ pipePath = [r \in Attempts |-> None]
  /\ opened = [r \in Attempts |-> FALSE]
  /\ pc = "idle" /\ op = "none" /\ cur = 0 /\ frame = NoLocals
  /\ ret = "none" /\ ret_path = None /\ fin = "none" /\ fin_path = None
  /\ branch = "none"
  /\ entry = Fields /\ work = {} /\ ignored = {} /\ dropped = {}
  /\ torn = NotTorn /\ activated = FALSE /\ flips = 0 /\ logged = None

\* The two keys the program binds and what each binding writes to the
\* temporary file.
Keys == {"Return", "Escape"}
Written(key) == IF key = "Return" THEN "SAVE" ELSE "CANCEL"

\* KeyHandler::new, at the start of main; no key pressed, nothing sent.
KeyInit ==
  keys = [pc |-> "register_enter", bindings_registered |-> FALSE,
          temp_file |-> FALSE, bound |-> {}, file |-> "", wait |-> "poll",
          trigger |-> "none", first |-> "none", registered |-> {},
          cleanups |-> 0, sent |-> 0, finished |-> 0]

Init == CaptureInit /\ AudioInit /\ KeyInit

\* ------------------------------------------------------------- start()
\* An early return of start() with an error (the ? operator): the locals are
\* dropped. Dropping the OwnedFd closes it and dropping the pipeline, which
\* never played, disposes it; dropping the Session does not close it, and the
\* raw descriptors that dup_fd returned stay open. No field of the Recorder is
\* touched.
DroppedLocals ==
  {k \in {"session"} : frame.session # None} \cup
  {k \in {"video_fd"} : frame.video_fd # None} \cup
  {k \in {"audio_fd"} : frame.audio_fd # None}

StartFail(e) ==
  /\ pc' = "idle" /\ ret' = e /\ branch' = "start_err"
  /\ dropped' = dropped \cup DroppedLocals
  /\ pipeState' = IF frame.pipeline # None
                    THEN [pipeState EXCEPT ![frame.pipeline] = "none"]
                    ELSE pipeState
  /\ pipePath' = IF frame.pipeline # None
                   THEN [pipePath EXCEPT ![frame.pipeline] = None]
                   ELSE pipePath
  /\ frame' = NoLocals
  /\ UNCHANGED <<recorderVars, task, fileVars, opened, op, cur, ret_path, fin,
                 fin_path, entry, work, ignored, recHist>>

\* A step of start() that goes on to the next statement with new locals.
StartStep(next, locals) ==
  /\ pc' = next /\ frame' = locals
  /\ UNCHANGED <<recorderVars, op, cur, resultVars, histVars>>

\* A start() that does not look at the flag.
AlreadyRecordingUnchecked(flag) == FALSE

\* The check that opens start(): is_recording.load().
AlreadyRecording(flag) == flag

\* start() is called: with the flag set it returns Ok(()) at once.
Start_Call ==
  /\ pc = "idle"
  /\ op' = "start" /\ entry' = Fields /\ work' = {} /\ ignored' = {}
  /\ dropped' = {}
  /\ fin' = "none" /\ fin_path' = None /\ ret_path' = None
  /\ IF AlreadyRecording(is_recording)
       THEN /\ pc' = "idle" /\ ret' = "Ok" /\ branch' = "start_noop"
            /\ cur' = cur
       ELSE /\ cur < MaxAttempts
            /\ cur' = cur + 1
            /\ pc' = "recording_path" /\ ret' = "pending" /\ branch' = "none"
  /\ UNCHANGED <<recorderVars, worldVars, frame, recHist>>
  /\ UNCHANGED <<audioVars, keyVars>>

\* Self::recording_path()?: the timestamp is SystemTime::now().elapsed().
Start_RecordingPath ==
  /\ pc = "recording_path"
  /\ \/ \E timestamp \in Timestamps :
          /\ StartStep("create_dir",
                       [frame EXCEPT !.output_path = PathOf(timestamp)])
          /\ UNCHANGED worldVars
     \/ StartFail("ErrSystemTime")
  /\ UNCHANGED <<audioVars, keyVars>>

\* fs::create_dir_all(parent).await?
Start_CreateDir ==
  /\ pc = "create_dir"
  /\ \/ StartStep("screencast_new", frame) /\ UNCHANGED worldVars
     \/ StartFail("ErrIo")
  /\ UNCHANGED <<audioVars, keyVars>>

\* Screencast::new().await?
Build_ScreencastNew ==
  /\ pc = "screencast_new"
  /\ \/ StartStep("create_session", frame) /\ UNCHANGED worldVars
     \/ StartFail("ErrPortal")
  /\ UNCHANGED <<audioVars, keyVars>>

\* screencast.create_session().await?
Build_CreateSession ==
  /\ pc = "create_session"
  /\ \/ /\ StartStep("available_types", [frame EXCEPT !.session = cur])
        /\ UNCHANGED worldVars
     \/ StartFail("ErrPortal")
  /\ UNCHANGED <<audioVars, keyVars>>

\* requested_types: Monitor | Window, plus Virtual when advertised, masked by
\* what is advertised.
\* A request that leaves out the intersection with the advertised types.
RequestedTypesUnmasked(available_types) ==
  LET base == {"Monitor", "Window"}
      audio_supported == "Virtual" \in available_types
  IN IF audio_supported THEN base \cup {"Virtual"} ELSE base

\* The requested source types: Monitor and Window, Virtual if advertised,
\* intersected with the advertised types.
RequestedTypes(available_types) ==
  LET base == {"Monitor", "Window"}
      audio_supported == "Virtual" \in available_types
      wanted == IF audio_supported THEN base \cup {"Virtual"} ELSE base
  IN wanted \cap available_types

\* The fail-fast check on the requested types.
NoSources(requested) == "Monitor" \notin requested /\ "Window" \notin requested

\* let available_types = screencast.available_source_types().await?
Build_AvailableTypes ==
  /\ pc = "available_types"
  /\ \/ \E available_types \in SUBSET SourceTypes :
          /\ StartStep("request_types",
                       [frame EXCEPT !.available_types = available_types])
          /\ UNCHANGED worldVars
     \/ StartFail("ErrPortal")
  /\ UNCHANGED <<audioVars, keyVars>>

\* The requested types are computed from the advertised ones and checked.
Build_RequestTypes ==
  /\ pc = "request_types"
  /\ LET requested_types == RequestedTypes(frame.available_types)
     IN IF NoSources(requested_types)
          THEN StartFail("ErrNoSources")
          ELSE /\ StartStep("select_sources",
                            [frame EXCEPT !.requested_types = requested_types,
                                          !.available_types = {}])
               /\ UNCHANGED worldVars
  /\ UNCHANGED <<audioVars, keyVars>>

\* screencast.select_sources(.., requested_types, ..).await?.response()?
Build_SelectSources ==
  /\ pc = "select_sources"
  /\ \/ /\ StartStep("start_request", [frame EXCEPT !.requested_types = {}])
        /\ UNCHANGED worldVars
     \/ StartFail("ErrPortal")
  /\ UNCHANGED <<audioVars, keyVars>>

\* The portal errors screencast.start() and its response() can return:
\* kind is "Failed" (the generic failure) or "Other", no_streams says whether
\* the message contains "No streams available".
PortalErrors == [kind : {"Failed", "Other"}, no_streams : BOOLEAN]

\* err.into(): the portal error wrapped unchanged in the error of start().
Into(err) ==
  CASE err.kind = "Failed" /\ err.no_streams -> "ErrPortal(Failed, no streams)"
    [] err.kind = "Failed" /\ ~err.no_streams -> "ErrPortal(Failed)"
    [] err.kind = "Other" /\ err.no_streams -> "ErrPortal(Other, no streams)"
    [] OTHER -> "ErrPortal(Other)"

\* A translation that looks at the message only, not at the kind of error.
PortalStartErrorAnyKind(err) ==
  IF err.no_streams THEN "ErrNoStreams" ELSE Into(err)

\* The error start() returns for a portal error at screencast.start() or at
\* its response(): Failed(message) with "No streams available" in the message
\* becomes the screen-capture diagnostic, anything else is passed through.
PortalStartError(err) ==
  IF err.kind = "Failed" /\ err.no_streams THEN "ErrNoStreams" ELSE Into(err)

\* screencast.start(&session, None).await
Build_StartRequest ==
  /\ pc = "start_request"
  /\ \/ StartStep("response", frame) /\ UNCHANGED worldVars
     \/ \E err \in PortalErrors :
          /\ StartStep("start_error", [frame EXCEPT !.err = err])
          /\ UNCHANGED worldVars
  /\ UNCHANGED <<audioVars, keyVars>>

\* The Err(err) arm of the match on screencast.start().
Build_StartError ==
  /\ pc = "start_error"
  /\ StartFail(PortalStartError(frame.err))
  /\ UNCHANGED <<audioVars, keyVars>>

\* start_request.response(): the granted streams.
Build_Response ==
  /\ pc = "response"
  /\ \/ \E granted \in GrantedLists :
          /\ StartStep("open_remote", [frame EXCEPT !.streams = granted])
          /\ UNCHANGED worldVars
     \/ \E err \in PortalErrors :
          /\ StartStep("response_error", [frame EXCEPT !.err = err])
          /\ UNCHANGED worldVars
  /\ UNCHANGED <<audioVars, keyVars>>

\* The Err(err) arm of the match on start_request.response().
Build_ResponseError ==
  /\ pc = "response_error"
  /\ StartFail(PortalStartError(frame.err))
  /\ UNCHANGED <<audioVars, keyVars>>

\* screencast.open_pipe_wire_remote(&session).await?
Build_OpenRemote ==
  /\ pc = "open_remote"
  /\ \/ /\ StartStep("split_streams", [frame EXCEPT !.remote_fd = cur])
        /\ UNCHANGED worldVars
     \/ StartFail("ErrPortal")
  /\ UNCHANGED <<audioVars, keyVars>>

\* Option<Stream>: <<>> is None, <<s>> is Some(s).
Some(s) == <<s>>
NoStream == <<>>

\* A fallback that takes any id at all for an audio id.
IdContainsAudioAnyId(s) == s.id # "none"

\* A fallback that never matches.
IdContainsAudioNever(s) == FALSE

\* id.contains("audio") on an optional id, false when there is none.
IdContainsAudio(s) == s.id = "audio"

\* A loop that keeps the first stream of each role it finds.
SplitOneFirstWins(acc, s) ==
  IF s.source_type \in {"Monitor", "Window"}
    THEN IF acc.video = NoStream THEN [acc EXCEPT !.video = Some(s)] ELSE acc
  ELSE IF s.source_type = "Virtual" \/ IdContainsAudio(s)
    THEN IF acc.audio = NoStream THEN [acc EXCEPT !.audio = Some(s)] ELSE acc
  ELSE IF acc.video = NoStream THEN [acc EXCEPT !.video = Some(s)] ELSE acc

\* One turn of the loop of split_streams: the match on stream.source_type().
SplitOne(acc, s) ==
  IF s.source_type \in {"Monitor", "Window"} THEN [acc EXCEPT !.video = Some(s)]
  ELSE IF s.source_type = "Virtual" THEN [acc EXCEPT !.audio = Some(s)]
  ELSE IF IdContainsAudio(s) THEN [acc EXCEPT !.audio = Some(s)]
  ELSE [acc EXCEPT !.video = Some(s)]

RECURSIVE SplitLoop(_, _, _)
SplitLoop(list, i, acc) ==
  IF i > Len(list) THEN acc ELSE SplitLoop(list, i + 1, SplitOne(acc, list[i]))

\* Recorder::split_streams: the last video and the last audio stream of the
\* list, an error when there is no video stream.
split_streams(list) ==
  LET found == SplitLoop(list, 1, [video |-> NoStream, audio |-> NoStream])
  IN IF found.video # NoStream
       THEN [ok |-> TRUE, video |-> found.video, audio |-> found.audio]
       ELSE [ok |-> FALSE, video |-> NoStream, audio |-> NoStream]

\* Self::split_streams(streams.streams())?
Build_SplitStreams ==
  /\ pc = "split_streams"
  /\ IF split_streams(frame.streams).ok
       THEN /\ StartStep("dup_video",
                         [frame EXCEPT
                            !.audio_stream =
                               (split_streams(frame.streams).audio # NoStream),
                            !.streams = <<>>])
            /\ UNCHANGED worldVars
       ELSE StartFail("ErrNoVideo")
  /\ UNCHANGED <<audioVars, keyVars>>

\* remote_fd.as_raw_fd(): the descriptor number of the handle. Descriptors
\* are numbered within the attempt that holds them, the handle being the
\* first.
as_raw_fd(remote) == IF remote = None THEN None ELSE 1

\* libc::dup(fd) where it succeeds: the lowest descriptor number that is not
\* open, open being the descriptors the attempt holds.
dup_fd(fd, open) ==
  CHOOSE n \in 1..(Cardinality(open) + 1) :
    n \notin open /\ \A m \in 1..(n - 1) : m \in open

\* A description in which the audio source is given the descriptor of the
\* video source.
StageFdsShared(video_fd, audio_fd, has_audio) ==
  [video |-> video_fd, audio |-> IF has_audio THEN video_fd ELSE None]

\* The fd= parameter of each pipewiresrc in the pipeline description: the
\* video source gets video_fd, the audio source, if there is one, audio_fd.
StageFds(video_fd, audio_fd, has_audio) ==
  [video |-> video_fd, audio |-> IF has_audio THEN audio_fd ELSE None]

\* create_pipeline: let video_fd = Self::dup_fd(remote_fd.as_raw_fd())?
Build_DupVideo ==
  /\ pc = "dup_video"
  /\ \/ /\ StartStep(IF frame.audio_stream THEN "dup_audio" ELSE "launch",
                     [frame EXCEPT !.video_fd =
                        dup_fd(as_raw_fd(frame.remote_fd),
                               {as_raw_fd(frame.remote_fd)})])
        /\ UNCHANGED worldVars
     \/ StartFail("ErrIo")
  /\ UNCHANGED <<audioVars, keyVars>>

\* create_pipeline: let audio_fd = Self::dup_fd(remote_fd.as_raw_fd())?
Build_DupAudio ==
  /\ pc = "dup_audio"
  /\ \/ /\ StartStep("launch",
                     [frame EXCEPT !.audio_fd =
                        dup_fd(as_raw_fd(frame.remote_fd),
                               {as_raw_fd(frame.remote_fd), frame.video_fd})])
        /\ UNCHANGED worldVars
     \/ StartFail("ErrIo")
  /\ UNCHANGED <<audioVars, keyVars>>

\* create_pipeline: gst::parse::launch(..)? and the downcast to a Pipeline.
\* The source stages of the pipeline own the duplicated descriptors from here
\* on, and its file sink is to write to output_path.
Build_Launch ==
  /\ pc = "launch"
  /\ \/ /\ pipeState' = [pipeState EXCEPT ![cur] = "built"]
        /\ pipePath' = [pipePath EXCEPT ![cur] = frame.output_path]
        /\ StartStep("set_playing",
                     [frame EXCEPT !.pipeline = cur,
                                   !.stages = StageFds(frame.video_fd,
                                                       frame.audio_fd,
                                                       frame.audio_stream),
                                   !.video_fd = None, !.audio_fd = None])
        /\ UNCHANGED <<task, fileVars, opened>>
     \/ StartFail("ErrGstreamer")
     \/ StartFail("ErrScreenCapture")
  /\ UNCHANGED <<audioVars, keyVars>>

\* pipeline.set_state(gst::State::Playing)?
Start_SetPlaying ==
  /\ pc = "set_playing"
  /\ \/ /\ pipeState' = [pipeState EXCEPT ![frame.pipeline] = "playing"]
        /\ StartStep("commit", frame)
        /\ UNCHANGED <<task, fileVars, pipePath, opened>>
     \/ StartFail("ErrState")
  /\ UNCHANGED <<audioVars, keyVars>>

\* The fields start() assigns once the pipeline plays, the store to the flag
\* and the spawn of the watcher. A value that was still in a field is dropped
\* by the assignment: the old OwnedFd is closed, the old pipeline and session
\* are dropped as they are (the pipeline plays on), the old watcher is
\* detached.
Overwritten ==
  {k \in {"pipeline"} : pipeline # None} \cup
  {k \in {"session"} : session # None}

Start_Commit ==
  /\ pc = "commit"
  /\ pipeline' = frame.pipeline
  /\ session' = frame.session
  /\ remote_fd' = frame.remote_fd
  /\ recording_path' = frame.output_path
  /\ start_time' = cur
  /\ is_recording' = TRUE
  /\ timeout_task' = cur
  /\ task' = [task EXCEPT ![cur] = "sleeping"]
  /\ dropped' = dropped \cup Overwritten
  /\ torn' = NotTorn /\ activated' = TRUE /\ flips' = 0 /\ logged' = None
  /\ pc' = "idle" /\ ret' = "Ok" /\ branch' = "start_ok"
  /\ frame' = NoLocals
  /\ UNCHANGED <<fileVars, pipeVars, op, cur, ret_path, fin, fin_path, entry,
                 work, ignored>>
  /\ UNCHANGED <<audioVars, keyVars>>

\* ------------------------------------------------- stop(), cancel(), finish()
\* The value an AtomicBool::swap(false) returns: the flag as it was.
SwapPrevious(flag) == flag

\* JoinHandle::abort on the taken handle: a watcher still asleep is cancelled
\* and ends; one that has woken and runs, or has ended, is not affected.
Abort(handle) ==
  IF handle # None /\ task[handle] = "sleeping"
    THEN [task EXCEPT ![handle] = "none"] ELSE task

\* stop() or cancel() is called and enters finish(discard), whose first
\* statement takes the watcher's handle and aborts it.
Finish_Call(name, d) ==
  /\ pc = "idle"
  /\ op' = name /\ entry' = Fields /\ work' = {} /\ ignored' = {}
  /\ dropped' = {}
  /\ frame' = [NoLocals EXCEPT !.discard = d]
  /\ timeout_task' = None
  /\ task' = Abort(timeout_task)
  /\ pc' = "swap"
  /\ ret' = "pending" /\ ret_path' = None /\ fin' = "pending" /\ fin_path' = None
  /\ branch' = "none"
  /\ UNCHANGED <<pipeline, session, remote_fd, recording_path, is_recording,
                 start_time, fileVars, pipeVars, cur, recHist>>
  /\ UNCHANGED <<audioVars, keyVars>>

\* stop(): self.finish(false)
Stop_Call == Finish_Call("stop", FALSE)

\* cancel(): self.finish(true)
Cancel_Call == Finish_Call("cancel", TRUE)

\* let was_recording = self.is_recording.swap(false)
Finish_Swap ==
  /\ pc = "swap"
  /\ frame' = [frame EXCEPT !.was_recording = SwapPrevious(is_recording)]
  /\ is_recording' = FALSE
  /\ flips' = IF SwapPrevious(is_recording) THEN flips + 1 ELSE flips
  /\ pc' = "take_pipeline"
  /\ UNCHANGED <<pipeline, session, remote_fd, recording_path, start_time,
                 timeout_task, worldVars, op, cur, resultVars, callHist, torn,
                 activated, logged>>
  /\ UNCHANGED <<audioVars, keyVars>>

\* if let Some(pipeline) = self.pipeline.take(): send the end-of-stream event.
Finish_TakePipeline ==
  /\ pc = "take_pipeline"
  /\ IF pipeline # None
       THEN /\ frame' = [frame EXCEPT !.taken = pipeline]
            /\ pipeline' = None
            /\ work' = work \cup {"eos"}
            /\ pc' = "drain"
       ELSE /\ pc' = "close_session"
            /\ UNCHANGED <<frame, pipeline, work>>
  /\ UNCHANGED <<session, remote_fd, recording_path, is_recording, start_time,
                 timeout_task, worldVars, op, cur, resultVars, entry, ignored,
                 dropped, recHist>>
  /\ UNCHANGED <<audioVars, keyVars>>

\* What bus.timed_pop(100 ms) can return: a message (end-of-stream, error, or
\* one of the other kinds, of which two are told apart), or None when the
\* poll times out.
BusMessages == {"Eos", "Error", "StateChanged", "Tag", "None"}

\* while let Some(msg) = bus.timed_pop(timeout): Eos and Error break, any other
\* message goes round again, None ends the loop.
DrainEnds(m) == m \in {"Eos", "Error", "None"}

Finish_Drain ==
  /\ pc = "drain"
  /\ \E m \in BusMessages :
       /\ frame' = [frame EXCEPT !.msg = m]
       /\ pc' = IF DrainEnds(m) THEN "set_null" ELSE "drain"
  /\ UNCHANGED <<recorderVars, worldVars, op, cur, resultVars, histVars>>
  /\ UNCHANGED <<audioVars, keyVars>>

\* The return of the public call once finish has returned r (with path p):
\* stop() returns it as it is; cancel() goes on to remove the file of a
\* returned path, returns Ok(()) for none, and passes an error on.
FinishReturns(r, p, b) ==
  /\ fin' = r /\ fin_path' = p /\ branch' = b
  /\ IF op = "cancel" /\ r = "Some"
       THEN /\ pc' = "cancel_remove" /\ ret' = "pending" /\ ret_path' = None
            /\ frame' = [NoLocals EXCEPT !.discard = frame.discard,
                                         !.was_recording = frame.was_recording,
                                         !.path = p]
       ELSE /\ pc' = "idle"
            /\ ret' = IF op = "cancel" /\ r = "None" THEN "Ok" ELSE r
            /\ ret_path' = IF op = "cancel" THEN None ELSE p
            /\ frame' = NoLocals

\* pipeline.set_state(gst::State::Null)?: an error is returned to the caller
\* at once, with the pipeline that was taken dropped as it is.
Finish_SetNull ==
  /\ pc = "set_null"
  /\ \/ /\ pipeState' = [pipeState EXCEPT ![frame.taken] = "none"]
        /\ pipePath' = [pipePath EXCEPT ![frame.taken] = None]
        /\ opened' = [opened EXCEPT ![frame.taken] = FALSE]
        /\ torn' = [torn EXCEPT !.pipeline = @ + 1]
        /\ work' = work \cup {"null"}
        /\ pc' = "close_session"
        /\ frame' = [frame EXCEPT !.taken = None, !.msg = "none"]
        /\ UNCHANGED <<resultVars, dropped>>
     \/ /\ FinishReturns("ErrState", None, "finish_err")
        /\ dropped' = dropped \cup {"pipeline"}
        /\ UNCHANGED <<pipeVars, torn, work>>
  /\ UNCHANGED <<recorderVars, task, fileVars, op, cur, entry, ignored,
                 activated, flips, logged>>
  /\ UNCHANGED <<audioVars, keyVars>>

\* A finish() that closes the session through a reference and leaves it in
\* the field.
Finish_CloseSessionInPlace ==
  /\ pc = "close_session"
  /\ IF session # None
       THEN /\ torn' = [torn EXCEPT !.session = @ + 1]
            /\ work' = work \cup {"close"}
            /\ \/ UNCHANGED ignored
               \/ ignored' = ignored \cup {"close"}
       ELSE UNCHANGED <<torn, work, ignored>>
  /\ pc' = "release"
  /\ UNCHANGED <<recorderVars, worldVars, op, cur, frame, resultVars, entry,
                 dropped, activated, flips, logged>>
  /\ UNCHANGED <<audioVars, keyVars>>

\* if let Some(session) = self.session.take(): let _ = session.close().await
Finish_CloseSession ==
  /\ pc = "close_session"
  /\ IF session # None
       THEN /\ session' = None
            /\ torn' = [torn EXCEPT !.session = @ + 1]
            /\ work' = work \cup {"close"}
            /\ \/ UNCHANGED ignored
               \/ ignored' = ignored \cup {"close"}
       ELSE UNCHANGED <<session, torn, work, ignored>>
  /\ pc' = "release"
  /\ UNCHANGED <<pipeline, remote_fd, recording_path, is_recording, start_time,
                 timeout_task, worldVars, op, cur, frame, resultVars, entry,
                 dropped, activated, flips, logged>>
  /\ UNCHANGED <<audioVars, keyVars>>

\* self.remote_fd = None; self.start_time = None; self.recording_path.take();
\* then the branch on discard and was_recording.
Finish_Release ==
  /\ pc = "release"
  /\ remote_fd' = None
  /\ torn' = IF remote_fd # None THEN [torn EXCEPT !.remote_fd = @ + 1]
                                  ELSE torn
  /\ work' = IF remote_fd # None THEN work \cup {"release"} ELSE work
  /\ start_time' = None
  /\ recording_path' = None
  /\ IF frame.discard
       THEN FinishReturns(IF recording_path # None THEN "Some" ELSE "None",
                          recording_path, "finish_discard")
       ELSE IF recording_path = None
         THEN FinishReturns("None", None, "finish_nopath")
         ELSE /\ frame' = [frame EXCEPT !.path = recording_path]
              /\ pc' = IF frame.was_recording THEN "metadata" ELSE "remove_stale"
              /\ UNCHANGED resultVars
  /\ UNCHANGED <<pipeline, session, is_recording, timeout_task, worldVars, op,
                 cur, entry, ignored, dropped, activated, flips, logged>>
  /\ UNCHANGED <<audioVars, keyVars>>

\* fs::remove_file(p): the file is gone afterwards, unless the removal fails;
\* every caller swallows the error (cancel() prints it).
RemoveFile(p) ==
  \/ /\ file' = [file EXCEPT ![p] = "absent"]
     /\ owner' = [owner EXCEPT ![p] = None]
     /\ UNCHANGED ignored
  \/ /\ file[p] # "absent"
     /\ ignored' = ignored \cup {"remove"}
     /\ UNCHANGED <<file, owner>>

\* !was_recording: let _ = fs::remove_file(stale).await; return Ok(None)
Finish_RemoveStale ==
  /\ pc = "remove_stale"
  /\ RemoveFile(frame.path)
  /\ work' = work \cup {"remove"}
  /\ FinishReturns("None", None, "finish_stale")
  /\ UNCHANGED <<recorderVars, task, pipeVars, op, cur, entry, dropped,
                 recHist>>
  /\ UNCHANGED <<audioVars, keyVars>>

\* match fs::metadata(&path).await: a file of length > 0 is returned.
Finish_Metadata ==
  /\ pc = "metadata"
  /\ IF file[frame.path] = "data"
       THEN FinishReturns("Some", frame.path, "finish_saved")
       ELSE /\ pc' = "remove_empty"
            /\ UNCHANGED <<resultVars, frame>>
  /\ UNCHANGED <<recorderVars, worldVars, op, cur, histVars>>
  /\ UNCHANGED <<audioVars, keyVars>>

\* Ok(_) | Err(_): let _ = fs::remove_file(&path).await; Ok(None)
Finish_RemoveEmpty ==
  /\ pc = "remove_empty"
  /\ RemoveFile(frame.path)
  /\ work' = work \cup {"remove"}
  /\ FinishReturns("None", None, "finish_empty")
  /\ UNCHANGED <<recorderVars, task, pipeVars, op, cur, entry, dropped,
                 recHist>>
  /\ UNCHANGED <<audioVars, keyVars>>

\* cancel(): fs::remove_file(&path) of the path finish returned; Ok(())
Cancel_Remove ==
  /\ pc = "cancel_remove"
  /\ RemoveFile(frame.path)
  /\ pc' = "idle" /\ ret' = "Ok" /\ ret_path' = None
  /\ frame' = NoLocals
  /\ UNCHANGED <<recorderVars, task, pipeVars, op, cur, fin, fin_path, branch,
                 entry, work, dropped, recHist>>
  /\ UNCHANGED <<audioVars, keyVars>>

\* ------------------------------------------------- the accessors
\* is_recording(): the flag, loaded.
IsRecording == is_recording

\* elapsed(): self.start_time.map(|start| start.elapsed()), a value exactly
\* when a start time is stored.
elapsed == IF start_time # None THEN "Some" ELSE "None"

\* ------------------------------------------------- the timeout watcher
\* sleep(RECORDING_LIMIT_SECS) returns: the watcher runs on.
Timeout_Elapse(r) ==
  /\ task[r] = "sleeping"
  /\ task' = [task EXCEPT ![r] = "running"]
  /\ UNCHANGED <<recorderVars, fileVars, pipeVars, callVars, resultVars,
                 histVars>>
  /\ UNCHANGED <<audioVars, keyVars>>

\* A watcher that loads the flag where it should swap it.
Timeout_SwapLoadsOnly(r) ==
  /\ task[r] = "running"
  /\ logged' = IF is_recording THEN r ELSE logged
  /\ task' = [task EXCEPT ![r] = "none"]
  /\ UNCHANGED <<recorderVars, fileVars, pipeVars, callVars, resultVars,
                 callHist, torn, activated, flips>>
  /\ UNCHANGED <<audioVars, keyVars>>

\* A watcher that prints its message whatever the swap returned.
Timeout_SwapAlwaysLogs(r) ==
  /\ task[r] = "running"
  /\ is_recording' = FALSE
  /\ flips' = IF SwapPrevious(is_recording) THEN flips + 1 ELSE flips
  /\ logged' = r
  /\ task' = [task EXCEPT ![r] = "none"]
  /\ UNCHANGED <<pipeline, session, remote_fd, recording_path, start_time,
                 timeout_task, fileVars, pipeVars, callVars, resultVars,
                 callHist, torn, activated>>
  /\ UNCHANGED <<audioVars, keyVars>>

\* if is_recording_flag.swap(false) { println!(..) }; the task ends.
Timeout_Swap(r) ==
  /\ task[r] = "running"
  /\ is_recording' = FALSE
  /\ flips' = IF SwapPrevious(is_recording) THEN flips + 1 ELSE flips
  /\ logged' = IF SwapPrevious(is_recording) THEN r ELSE logged
  /\ task' = [task EXCEPT ![r] = "none"]
  /\ UNCHANGED <<pipeline, session, remote_fd, recording_path, start_time,
                 timeout_task, fileVars, pipeVars, callVars, resultVars,
                 callHist, torn, activated>>
  /\ UNCHANGED <<audioVars, keyVars>>

\* ------------------------------------------------- the running pipeline
\* The file sink of a playing pipeline creates its file, empty.
Pipeline_Open(r) ==
  /\ pipeState[r] = "playing" /\ ~opened[r]
  /\ opened' = [opened EXCEPT ![r] = TRUE]
  /\ file' = [file EXCEPT ![pipePath[r]] = "empty"]
  /\ owner' = [owner EXCEPT ![pipePath[r]] = r]
  /\ UNCHANGED <<recorderVars, task, pipeState, pipePath, callVars, resultVars,
                 histVars>>
  /\ UNCHANGED <<audioVars, keyVars>>

\* A playing pipeline writes encoded data to the file it created.
Pipeline_Write(r) ==
  /\ pipeState[r] = "playing" /\ opened[r]
  /\ owner[pipePath[r]] = r /\ file[pipePath[r]] = "empty"
  /\ file' = [file EXCEPT ![pipePath[r]] = "data"]
  /\ UNCHANGED <<recorderVars, task, owner, pipeVars, callVars, resultVars,
                 histVars>>
  /\ UNCHANGED <<audioVars, keyVars>>

\* ------------------------------------------------- the specification
Next ==
  \/ Start_Call
  \/ Start_RecordingPath
  \/ Start_CreateDir
  \/ Build_ScreencastNew
  \/ Build_CreateSession
  \/ Build_AvailableTypes
  \/ Build_RequestTypes
  \/ Build_SelectSources
  \/ Build_StartRequest
  \/ Build_StartError
  \/ Build_Response
  \/ Build_ResponseError
  \/ Build_OpenRemote
  \/ Build_SplitStreams
  \/ Build_DupVideo
  \/ Build_DupAudio
  \/ Build_Launch
  \/ Start_SetPlaying
  \/ Start_Commit
  \/ Stop_Call
  \/ Cancel_Call
  \/ Finish_Swap
  \/ Finish_TakePipeline
  \/ Finish_Drain
  \/ Finish_SetNull
  \/ Finish_CloseSession
  \/ Finish_Release
  \/ Finish_RemoveStale
  \/ Finish_Metadata
  \/ Finish_RemoveEmpty
  \/ Cancel_Remove
  \/ \E r \in Attempts : Timeout_Elapse(r)
  \/ \E r \in Attempts : Timeout_Swap(r)
  \/ \E r \in Attempts : Pipeline_Open(r)
  \/ \E r \in Attempts : Pipeline_Write(r)

Spec == Init /\ [][Next]_vars

\* A step of a finish() that is under way, or of the rest of cancel().
FinishStep ==
  \/ Finish_Swap
  \/ Finish_TakePipeline
  \/ Finish_Drain
  \/ Finish_SetNull
  \/ Finish_CloseSession
  \/ Finish_Release
  \/ Finish_RemoveStale
  \/ Finish_Metadata
  \/ Finish_RemoveEmpty
  \/ Cancel_Remove

\* The runtime keeps polling what it was given: a finish() that is awaited
\* takes its next step, a watcher whose sleep is over wakes, a watcher that
\* woke does its swap. When the caller calls is up to the caller.
Fairness ==
  /\ WF_vars(FinishStep)
  /\ \A r \in Attempts : WF_vars(Timeout_Elapse(r)) /\ WF_vars(Timeout_Swap(r))

FairSpec == Init /\ [][Next]_vars /\ Fairness

\* ------------------------------------------------- AudioRecorder
\* A step of the caller of the AudioRecorder to position next with result r,
\* returning n samples.
AudioGoes(next, r, n) ==
  acall' = [acall EXCEPT !.pc = next, !.ret = r, !.samples = n]

\* JoinHandle::abort, as for the Recorder.
AudioAbort(handle) ==
  IF handle # None /\ audio_task[handle] = "sleeping"
    THEN [audio_task EXCEPT ![handle] = "none"] ELSE audio_task

\* start() is called: with the flag set it returns Ok(()) at once.
Audio_Start_Call ==
  /\ acall.pc = "idle"
  /\ IF audio.is_recording
       THEN acall' = [acall EXCEPT !.op = "start", !.ret = "Ok", !.samples = 0]
       ELSE /\ acall.cur < MaxAttempts
            /\ acall' = [pc |-> "abort_old", op |-> "start",
                         cur |-> acall.cur + 1, ret |-> "pending",
                         samples |-> 0, trigger |-> acall.trigger]
  /\ UNCHANGED <<audio, audio_task, streamState, captureVars, keyVars>>

\* if let Some(handle) = self.timeout_task.take() { handle.abort() }
Audio_Start_AbortOld ==
  /\ acall.pc = "abort_old"
  /\ audio_task' = AudioAbort(audio.timeout_task)
  /\ audio' = [audio EXCEPT !.timeout_task = None]
  /\ AudioGoes("store", "pending", 0)
  /\ UNCHANGED <<streamState, captureVars, keyVars>>

\* samples.lock().unwrap().clear(); is_recording.store(true)
Audio_Start_Store ==
  /\ acall.pc = "store"
  /\ audio' = [audio EXCEPT !.samples = 0, !.is_recording = TRUE]
  /\ AudioGoes("build", "pending", 0)
  /\ UNCHANGED <<audio_task, streamState, captureVars, keyVars>>

\* self.device.build_input_stream(..)?
Audio_Start_Build ==
  /\ acall.pc = "build"
  /\ \/ /\ streamState' = [streamState EXCEPT ![acall.cur] = "built"]
        /\ AudioGoes("play", "pending", 0)
     \/ /\ AudioGoes("idle", "ErrBuildStream", 0)
        /\ UNCHANGED streamState
  /\ UNCHANGED <<audio, audio_task, captureVars, keyVars>>

\* stream.play()?: on an error the stream that was built is dropped.
Audio_Start_Play ==
  /\ acall.pc = "play"
  /\ \/ /\ streamState' = [streamState EXCEPT ![acall.cur] = "playing"]
        /\ AudioGoes("spawn", "pending", 0)
     \/ /\ streamState' = [streamState EXCEPT ![acall.cur] = "none"]
        /\ AudioGoes("idle", "ErrPlayStream", 0)
  /\ UNCHANGED <<audio, audio_task, captureVars, keyVars>>

\* self.stream = Some(stream), which drops a stream that was still stored;
\* self.timeout_task = Some(tokio::spawn(..)); Ok(())
Audio_Start_Spawn ==
  /\ acall.pc = "spawn"
  /\ streamState' = IF audio.stream # None
                      THEN [streamState EXCEPT ![audio.stream] = "none"]
                      ELSE streamState
  /\ audio' = [audio EXCEPT !.stream = acall.cur, !.timeout_task = acall.cur]
  /\ audio_task' = [audio_task EXCEPT ![acall.cur] = "sleeping"]
  /\ AudioGoes("idle", "Ok", 0)
  /\ UNCHANGED <<captureVars, keyVars>>

\* stop() is called: if !self.is_recording.swap(false) { return Ok(Vec::new()) }
Audio_Stop_Call ==
  /\ acall.pc = "idle"
  /\ audio' = [audio EXCEPT !.is_recording = FALSE]
  /\ IF SwapPrevious(audio.is_recording)
       THEN acall' = [acall EXCEPT !.op = "stop", !.pc = "abort",
                                   !.ret = "pending", !.samples = 0]
       ELSE acall' = [acall EXCEPT !.op = "stop", !.ret = "Ok", !.samples = 0]
  /\ UNCHANGED <<audio_task, streamState, captureVars, keyVars>>

\* if let Some(handle) = self.timeout_task.take() { handle.abort() }
Audio_Stop_Abort ==
  /\ acall.pc = "abort"
  /\ audio_task' = AudioAbort(audio.timeout_task)
  /\ audio' = [audio EXCEPT !.timeout_task = None]
  /\ AudioGoes("drop_stream", "pending", 0)
  /\ UNCHANGED <<streamState, captureVars, keyVars>>

\* if let Some(stream) = self.stream.take() { drop(stream) }
Audio_Stop_DropStream ==
  /\ acall.pc = "drop_stream"
  /\ streamState' = IF audio.stream # None
                      THEN [streamState EXCEPT ![audio.stream] = "none"]
                      ELSE streamState
  /\ audio' = [audio EXCEPT !.stream = None]
  /\ AudioGoes("clone", "pending", 0)
  /\ UNCHANGED <<audio_task, captureVars, keyVars>>

\* let samples = self.samples.lock().unwrap().clone(); Ok(samples)
Audio_Stop_Clone ==
  /\ acall.pc = "clone"
  /\ AudioGoes("idle", "Ok", audio.samples)
  /\ UNCHANGED <<audio, audio_task, streamState, captureVars, keyVars>>

\* sleep(60 s) returns in the watcher.
Audio_Timeout_Elapse(r) ==
  /\ audio_task[r] = "sleeping"
  /\ audio_task' = [audio_task EXCEPT ![r] = "running"]
  /\ UNCHANGED <<audio, streamState, acall, captureVars, keyVars>>

\* if is_recording_timeout.swap(false) { println!(..) }; the task ends.
Audio_Timeout_Swap(r) ==
  /\ audio_task[r] = "running"
  /\ audio' = [audio EXCEPT !.is_recording = FALSE]
  /\ audio_task' = [audio_task EXCEPT ![r] = "none"]
  /\ UNCHANGED <<streamState, acall, captureVars, keyVars>>

\* The input callback of a playing stream: with the flag set it appends the
\* data it was given to the samples.
Audio_Callback(r) ==
  /\ streamState[r] = "playing"
  /\ audio.is_recording /\ audio.samples < MaxSamples
  /\ audio' = [audio EXCEPT !.samples = @ + 1]
  /\ UNCHANGED <<audio_task, streamState, acall, captureVars, keyVars>>

AudioNext ==
  \/ Audio_Start_Call
  \/ Audio_Start_AbortOld
  \/ Audio_Start_Store
  \/ Audio_Start_Build
  \/ Audio_Start_Play
  \/ Audio_Start_Spawn
  \/ Audio_Stop_Call
  \/ Audio_Stop_Abort
  \/ Audio_Stop_DropStream
  \/ Audio_Stop_Clone
  \/ \E r \in Attempts : Audio_Timeout_Elapse(r)
  \/ \E r \in Attempts : Audio_Timeout_Swap(r)
  \/ \E r \in Attempts : Audio_Callback(r)

AudioSpec == Init /\ [][AudioNext]_vars

\* ------------------------------------------------- the key handler
\* A step of main or of its key handler that leaves both recorders alone.
KeyStep(k) ==
  /\ keys' = k
  /\ UNCHANGED <<captureVars, audioVars>>

\* send_cmd("keyword unbind ,<key>"): the compositor drops the binding when
\* the command succeeds.
Unbind(bound, key, ok) == IF ok THEN bound \ {key} ELSE bound

\* KeyHandler::finish_cleanup
finish_cleanup(k) ==
  [k EXCEPT !.bindings_registered = FALSE, !.temp_file = FALSE]

\* KeyHandler::cleanup_blocking: nothing unless bindings_registered, else
\* both unbind commands (okR, okE: whether each succeeds), then
\* finish_cleanup.
cleanup_blocking(k, okR, okE) ==
  IF ~k.bindings_registered THEN k
  ELSE finish_cleanup(
         [k EXCEPT !.bound = Unbind(Unbind(@, "Return", okR), "Escape", okE),
                   !.sent = @ + 2])

\* KeyHandler::cleanup: nothing unless bindings_registered, else both unbind
\* commands (aR, aE), the blocking fallback (bR, bE) if one failed, and
\* finish_cleanup.
cleanup(k, aR, aE, bR, bE) ==
  IF ~k.bindings_registered THEN k
  ELSE LET sent == [k EXCEPT
                      !.bound = Unbind(Unbind(@, "Return", aR), "Escape", aE),
                      !.sent = @ + 2]
       IN IF aR /\ aE THEN finish_cleanup(sent)
                      ELSE cleanup_blocking(sent, bR, bE)

\* register_bindings: NamedTempFile::new()? and the bind of Return. An error
\* of either is returned at once; main returns it and drops the handler.
Key_RegisterEnter ==
  /\ keys.pc = "register_enter"
  /\ \/ KeyStep([keys EXCEPT !.pc = "register_escape",
                             !.bound = @ \cup {"Return"},
                             !.registered = @ \cup {"Return"}])
     \/ KeyStep([keys EXCEPT !.pc = "drop"])

\* register_bindings: the bind of Escape, then temp_file and
\* bindings_registered are set. An error is returned before they are.
Key_RegisterEscape ==
  /\ keys.pc = "register_escape"
  /\ \/ KeyStep([keys EXCEPT !.pc = "start_recording",
                             !.bound = @ \cup {"Escape"},
                             !.registered = @ \cup {"Escape"},
                             !.temp_file = TRUE,
                             !.bindings_registered = TRUE])
     \/ KeyStep([keys EXCEPT !.pc = "drop"])

\* The user presses a bound key: the compositor runs echo '..' > temp_path.
\* A key is pressed only once the previous one has been taken from the file.
User_Press(key) ==
  /\ key \in keys.bound /\ keys.file = ""
  /\ keys.pc \in {"start_recording", "loop"}
  /\ KeyStep([keys EXCEPT !.file = Written(key)])

\* The trigger a content of the file stands for.
KeyTrigger(content) == IF content = "SAVE" THEN "save_key" ELSE "cancel_key"

\* wait_for_input: read_to_string finds the file not empty; the future goes
\* on to fs::write(temp_path, "").await, holding the content it read: the
\* program has received the key.
Wait_Read ==
  /\ keys.pc = "loop" /\ keys.wait = "poll" /\ keys.file # ""
  /\ KeyStep([keys EXCEPT !.wait = keys.file,
                          !.first = IF @ = "none" THEN KeyTrigger(keys.file)
                                                  ELSE @])

\* A wait_for_input future that is dropped: a write it had begun still
\* clears the file, what it had read is gone with it.
DropWait(k) ==
  [k EXCEPT !.wait = "poll", !.file = IF k.wait # "poll" THEN "" ELSE @]

\* ------------------------------------------------- the audio-only program
\* main has started the recording and is in its event loop: the call of
\* start made before the loop returned Ok and no key or check has ended it.
InLoop == acall.pc = "idle" /\ acall.op = "start" /\ acall.ret = "Ok"

\* What ends the loop with save_recording: the tick that finds 60 s elapsed,
\* the tick that finds the flag clear, the Save key.
SaveTriggers == {"limit", "external", "save_key"}

\* What ends the loop with cancel_recording: the Cancel key, a key error.
CancelTriggers == {"cancel_key", "key_error"}

\* recorder.start_recording().await?: made once, after the registration.
Main_StartRecording ==
  /\ keys.pc = "start_recording"
  /\ acall.op = "none"
  /\ Audio_Start_Call

\* start_recording() has returned: Ok enters the loop, an error is returned
\* by main, which drops the handler.
Main_EnterLoop ==
  /\ keys.pc = "start_recording"
  /\ acall.op = "start" /\ acall.pc = "idle"
  /\ KeyStep([keys EXCEPT !.pc = IF acall.ret = "Ok" THEN "loop" ELSE "drop"])

\* The tick branch of select! completes without a break: the wait_for_input
\* future of this turn of the loop is dropped and a new one is made.
Main_Tick ==
  /\ keys.pc = "loop" /\ keys.wait # "poll"
  /\ KeyStep(DropWait(keys))

\* A branch of select! breaks the loop for the reason t: the wait_for_input
\* future is dropped or has returned, and key_handler.cleanup() is next.
MainBreaks(t) ==
  /\ keys.pc = "loop"
  /\ KeyStep([DropWait(keys) EXCEPT
                !.pc = "cleanup", !.trigger = t,
                !.first = IF @ = "none" THEN t ELSE @])

\* if elapsed >= 60 s { .. break save_recording(..) }
Main_LimitReached == MainBreaks("limit")

\* if !recorder.is_recording() { .. break save_recording(..) }
Main_StoppedExternally == ~audio.is_recording /\ MainBreaks("external")

\* wait_for_input returns Ok(KeyAction::Save) once its write is done.
Main_SaveKey == keys.wait = "SAVE" /\ MainBreaks("save_key")

\* wait_for_input returns Ok(KeyAction::Cancel) once its write is done. (It
\* has no path that returns an error: the Err arm of main is never taken.)
Main_Cancel == keys.wait = "CANCEL" /\ MainBreaks("cancel_key")

\* key_handler.cleanup().await in the branch that breaks the loop.
Main_Cleanup ==
  /\ keys.pc = "cleanup"
  /\ \E aR, aE, bR, bE \in BOOLEAN :
       KeyStep([cleanup([keys EXCEPT !.sent = 0], aR, aE, bR, bE) EXCEPT
                  !.pc = "finishing", !.cleanups = @ + 1])

\* save_recording or cancel_recording makes its first call, the recorder's
\* stop, for the loop that ended for the reason t.
MainEnds(t) ==
  /\ InLoop
  /\ audio' = [audio EXCEPT !.is_recording = FALSE]
  /\ IF SwapPrevious(audio.is_recording)
       THEN acall' = [acall EXCEPT !.op = "stop", !.pc = "abort",
                                   !.ret = "pending", !.samples = 0,
                                   !.trigger = t]
       ELSE acall' = [acall EXCEPT !.op = "stop", !.ret = "Ok", !.samples = 0,
                                   !.trigger = t]
  /\ UNCHANGED <<audio_task, streamState, captureVars>>

\* break save_recording(..) / break cancel_recording(..): the finishing
\* action of the run begins.
Main_Finish ==
  /\ keys.pc = "finishing"
  /\ MainEnds(keys.trigger)
  /\ keys' = [keys EXCEPT !.pc = "stopping", !.finished = @ + 1]

\* save_recording after its call of stop: with no samples it reports that
\* nothing was recorded, otherwise it writes them to the file.
Main_SaveSamples ==
  /\ acall.pc = "idle" /\ acall.op = "stop" /\ acall.trigger \in SaveTriggers
  /\ acall' = [acall EXCEPT !.op = IF acall.samples = 0 THEN "nothing_recorded"
                                                         ELSE "saved"]
  /\ UNCHANGED <<audio, audio_task, streamState, captureVars, keyVars>>

\* The finishing action has returned.
FinishingDone ==
  /\ acall.pc = "idle"
  /\ \/ acall.op \in {"saved", "nothing_recorded"}
     \/ acall.op = "stop" /\ acall.trigger \in CancelTriggers

\* key_handler.cleanup().await after the loop.
Main_FinalCleanup ==
  /\ keys.pc = "stopping" /\ FinishingDone
  /\ \E aR, aE, bR, bE \in BOOLEAN :
       KeyStep([cleanup([keys EXCEPT !.sent = 0], aR, aE, bR, bE) EXCEPT
                  !.pc = "drop", !.cleanups = @ + 1])

\* main returns: impl Drop for KeyHandler calls cleanup_blocking.
Key_Drop ==
  /\ keys.pc = "drop"
  /\ \E okR, okE \in BOOLEAN :
       KeyStep([cleanup_blocking([keys EXCEPT !.sent = 0], okR, okE) EXCEPT
                  !.pc = "exit"])

MainNext ==
  \/ Key_RegisterEnter
  \/ Key_RegisterEscape
  \/ \E key \in Keys : User_Press(key)
  \/ Wait_Read
  \/ Main_StartRecording
  \/ Main_EnterLoop
  \/ Audio_Start_AbortOld
  \/ Audio_Start_Store
  \/ Audio_Start_Build
  \/ Audio_Start_Play
  \/ Audio_Start_Spawn
  \/ Main_Tick
  \/ Main_LimitReached
  \/ Main_StoppedExternally
  \/ Main_SaveKey
  \/ Main_Cancel
  \/ Main_Cleanup
  \/ Main_Finish
  \/ Main_SaveSamples
  \/ Main_FinalCleanup
  \/ Key_Drop
  \/ Audio_Stop_Abort
  \/ Audio_Stop_DropStream
  \/ Audio_Stop_Clone
  \/ \E r \in Attempts : Audio_Timeout_Elapse(r)
  \/ \E r \in Attempts : Audio_Timeout_Swap(r)
  \/ \E r \in Attempts : Audio_Callback(r)

MainSpec == Init /\ [][MainNext]_vars

\* ------------------------------------------------- split_streams on its own
\* Every list the portal may grant: any source type with any id.
StreamLists == ListsUpTo(Streams, MaxStreams)

\* The first start() has negotiated and opened the remote, and is about to
\* classify the streams it was granted.
ClassifyInit ==
  /\ pipeline = None /\ session = None /\ remote_fd = None
  /\ recording_path = None /\ is_recording = FALSE /\ start_time = None
  /\ timeout_task = None
  /\ task = [r \in Attempts |-> "none"]
  /\ file = [p \in Paths |-> "absent"]
  /\ owner = [p \in Paths |-> None]
  /\ pipeState = [r \in Attempts |-> "none"]
  /\ pipePath = [r \in Attempts |-> None]
  /\ opened = [r \in Attempts |-> FALSE]
  /\ pc = "split_streams" /\ op = "start" /\ cur = 1
  /\ \E granted \in StreamLists :
       frame = [NoLocals EXCEPT !.output_path = PathOf(0), !.session = 1,
                                !.remote_fd = 1, !.streams = granted]
  /\ ret = "pending" /\ ret_path = None /\ fin = "none" /\ fin_path = None
  /\ branch = "none"
  /\ entry = Fields /\ work = {} /\ ignored = {} /\ dropped = {}
  /\ torn = NotTorn /\ activated = FALSE /\ flips = 0 /\ logged = None
  /\ AudioInit /\ KeyInit

ClassifyNext == Build_SplitStreams

ClassifySpec == ClassifyInit /\ [][ClassifyNext]_vars

\* ------------------------------------------------- the claims
\* The caller is between two public calls.
Observable == pc = "idle"

\* The last public call was stop() or cancel() and has returned.
FinishReturned == Observable /\ op \in {"stop", "cancel"}

\* The positions of finish() after its swap of the flag.
AfterSwap ==
  {"take_pipeline", "drain", "set_null", "close_session", "release",
   "remove_stale", "metadata", "remove_empty"}

\* The finish() in progress lost the flag to the watcher of the recording it
\* is finishing: the watcher's swap saw true, its own saw false.
FinishLostToWatcher ==
  /\ op \in {"stop", "cancel"} /\ pc \in AfterSwap
  /\ ~frame.was_recording
  /\ logged # None /\ logged = entry.start_time

\* Every activation of the flag is ended by exactly one true->false
\* transition: none before the first store, none while the flag is set, one
\* once it is clear again.
OneTransition ==
  flips = (IF activated /\ ~is_recording THEN 1 ELSE 0)

\* C1: exactly one of a manual finish and the timeout watcher of the
\* same recording performs the true->false transition of the flag, and the
\* one that observes false performs no teardown work.
C1_LoserDoesNoTeardown ==
  OneTransition /\ (FinishLostToWatcher => work = {})

\* C2: the resources of every successful start() are torn down exactly once:
\* no resource is torn down twice, none is dropped without its teardown (by a
\* start() that overwrites the fields, or by a finish() that returns early),
\* and a finish that returned has torn down what the Recorder held.
C2_TornDownExactlyOnce ==
  /\ \A k \in DOMAIN torn : torn[k] <= 1
  /\ ~(branch = "start_ok" /\ dropped # {})
  /\ ~(op \in {"stop", "cancel"} /\ "pipeline" \in dropped)
  /\ (FinishReturned /\ fin \in {"Some", "None"} /\ entry.session # None =>
        torn.session = 1 /\ torn.pipeline = 1 /\ torn.remote_fd = 1)

\* C3: between calls either nothing is recording and pipeline, session and
\* remote handle are empty, or a recording is in progress and all three are
\* populated.
C3_IdleOrFullyPopulated ==
  Observable =>
    \/ ~is_recording /\ pipeline = None /\ session = None /\ remote_fd = None
    \/ is_recording /\ pipeline # None /\ session # None /\ remote_fd # None

\* A step in which the caller calls start().
StartIsCalled ==
  /\ pc = "idle" /\ op' = "start"
  /\ <<callVars, resultVars, callHist>>' # <<callVars, resultVars, callHist>>

\* C4: start() called while the flag is set returns Ok at once and changes no
\* field of the Recorder, nothing in the world, and starts no negotiation.
C4_StartWhileActiveIsNoop ==
  [][StartIsCalled /\ is_recording =>
       /\ pc' = "idle" /\ ret' = "Ok"
       /\ UNCHANGED <<recorderVars, worldVars, cur, frame, recHist>>]_vars

\* start() has returned from its check of the flag, and the recording goes on.
C4_Witness == Observable /\ branch = "start_noop" /\ is_recording

\* C5: stop() entered with the flag set returns the output path iff the file
\* there has length > 0 and then leaves it; otherwise it returns none and no
\* file remains at the path.
C5_SavedIffNonEmpty ==
  Observable /\ op = "stop" /\ entry.is_recording =>
    \/ /\ ret = "Some" /\ ret_path = entry.recording_path
       /\ file[entry.recording_path] = "data"
    \/ /\ ret = "None" /\ file[entry.recording_path] = "absent"

\* C6: finish(discard = true) returns the output path that was stored before
\* the call whenever there was one, and clears the stored path.
C6_DiscardReturnsPath ==
  /\ op = "cancel" /\ pc \in {"idle", "cancel_remove"}
  /\ entry.recording_path # None
  => fin = "Some" /\ fin_path = entry.recording_path /\ recording_path = None

\* C7: stop() entered with the flag clear returns none, and no file is left
\* at the output path that was stored before the call.
C7_StaleReturnsNone ==
  Observable /\ op = "stop" /\ ~entry.is_recording =>
    /\ ret = "None"
    /\ entry.recording_path # None => file[entry.recording_path] = "absent"

\* C8: no failure of a teardown step makes finish() return an error: finish()
\* always returns a path or none, with the remaining teardown done.
C8_FinishNeverFails ==
  FinishReturned =>
    /\ fin \in {"Some", "None"}
    /\ pipeline = None /\ session = None /\ remote_fd = None
    /\ recording_path = None /\ start_time = None

\* start() has returned an error.
StartFailed == Observable /\ op = "start" /\ branch = "start_err"

\* C9: after start() returned an error the Recorder is as it was
\* before the call: the flag clear and every other field empty.
C9_FailedStartLeavesAllEmpty ==
  StartFailed =>
    /\ Fields = entry /\ ~is_recording
    /\ pipeline = None /\ session = None /\ remote_fd = None
    /\ recording_path = None /\ start_time = None /\ timeout_task = None

\* C13: after a successful start() followed by cancel(), no file remains at
\* the output path of the recording, the stored path is empty and the
\* recorder is idle, whether or not the file was created or the timeout fired.
C13_CancelLeavesNoFile ==
  Observable /\ op = "cancel" /\ entry.recording_path # None =>
    /\ file[entry.recording_path] = "absent"
    /\ recording_path = None /\ ~is_recording
    /\ pipeline = None /\ session = None /\ remote_fd = None

\* A recording is on and no stop() or cancel() has been called on it.
RecordingUntouched == is_recording /\ op = "start"

\* C14: after a successful start() with no stop() or cancel(), a timeout
\* watcher eventually clears the flag (under fair scheduling), and the flag
\* is never set again but by the next successful start().
C14_TimeoutEventuallyClears ==
  /\ RecordingUntouched ~> ((~is_recording /\ logged # None) \/ op # "start")
  /\ [][~is_recording /\ is_recording' =>
         op' = "start" /\ branch' = "start_ok"]_vars

\* The watcher of the recording has cleared the flag with no manual call.
C14_Witness ==
  /\ Observable /\ op = "start" /\ branch = "start_ok"
  /\ ~is_recording /\ logged # None /\ logged = start_time

\* Watcher r clears a flag that was set.
WatcherClears(r) ==
  /\ task[r] = "running" /\ task'[r] = "none"
  /\ is_recording /\ ~is_recording'

\* C16: the watcher of a recording never changes the flag once a manual
\* finish of that recording has cleared it: the only flag a watcher ever
\* clears is that of the recording whose start() armed it, never the flag of
\* a recording started after a finish().
C16_WatcherClearsOwnRecordingOnly ==
  [][\A r \in Attempts : WatcherClears(r) => start_time = r]_vars

\* The swap of the flag in Recorder::finish.
FinishSwaps == pc = "swap" /\ pc' = "take_pipeline"

\* A step in which AudioRecorder::stop is called; its first statement is the
\* swap of the flag.
AudioStopSwaps ==
  acall.pc = "idle" /\ acall'.op = "stop" /\ <<acall, audio>>' # <<acall, audio>>

\* C15: in every manual finish the watcher is cancelled first, before the
\* finish reads or clears the flag: when Recorder::finish and when
\* AudioRecorder::stop swap the flag, the handle has been taken and the
\* watcher it named is no longer asleep.
C15_CancelBeforeFlag ==
  [][/\ FinishSwaps =>
          /\ timeout_task = None
          /\ entry.timeout_task # None => task[entry.timeout_task] # "sleeping"
     /\ AudioStopSwaps =>
          /\ audio.timeout_task = None
          /\ \A r \in Attempts : audio_task[r] # "sleeping"]_vars

\* C17: finish() with a pipeline sends end-of-stream first and forces the
\* pipeline to Null only after it has seen an end-of-stream or error message
\* on the bus; a poll that times out does not end the drain.
C17_NullOnlyAfterEosOrError ==
  pc = "set_null" => "eos" \in work /\ frame.msg \in {"Eos", "Error"}

\* C18: finish() always terminates, whatever the bus delivers: every stop()
\* or cancel() that was called returns.
C18_FinishTerminates ==
  (op \in {"stop", "cancel"} /\ pc # "idle") ~> (pc = "idle")

\* Every field of the Recorder is empty and the flag is clear.
NoFields ==
  [pipeline |-> None, session |-> None, remote_fd |-> None,
   recording_path |-> None, is_recording |-> FALSE, start_time |-> None,
   timeout_task |-> None]

\* C19: finish is idempotent. A finish that completed leaves every field
\* empty and the flag clear, and a finish entered in that state changes no
\* field, does no pipeline, session or handle operation, removes no file and
\* returns none, for either value of discard.
C19_FinishIdempotent ==
  /\ FinishReturned /\ fin \in {"Some", "None"} => Fields = NoFields
  /\ op \in {"stop", "cancel"} /\ entry = NoFields =>
       /\ Fields = NoFields /\ work = {} /\ ignored = {} /\ dropped = {}
       /\ pc # "cancel_remove"
       /\ Observable => fin = "None" /\ fin_path = None

\* A finish called after a recording was started and finished has returned.
C19_Witness ==
  /\ FinishReturned /\ activated /\ entry = NoFields
  /\ branch \in {"finish_discard", "finish_nopath"}

\* C20: between calls, elapsed() returns a value if and only if
\* is_recording() is true.
C20_ElapsedIffRecording ==
  Observable => (elapsed = "Some" <=> IsRecording)

\* The list holds a stream typed t.
HasTyped(list, t) == \E i \in 1..Len(list) : list[i].source_type = t

\* The list holds a stream without a source type whose id does (a = TRUE) or
\* does not (a = FALSE) contain "audio".
HasUntyped(list, a) ==
  \E i \in 1..Len(list) :
    list[i].source_type = "None" /\ (list[i].id = "audio") = a

\* start() is about to classify a list with a Monitor or Window stream and
\* no Virtual stream.
VideoTypedNoVirtual ==
  /\ pc = "split_streams"
  /\ HasTyped(frame.streams, "Monitor") \/ HasTyped(frame.streams, "Window")
  /\ ~HasTyped(frame.streams, "Virtual")

\* The classification succeeded without an audio stream.
ClassifiedVideoOnly == pc' = "dup_video" /\ ~frame'.audio_stream

\* C11: for every granted list with at least one Monitor or Window stream and
\* no Virtual stream, untyped streams with any id allowed, split_streams
\* succeeds and returns audio = none.
C11_NoVirtualGivesNoAudio ==
  [][VideoTypedNoVirtual => ClassifiedVideoOnly]_vars

\* C11 as amended: for every granted list with at least one Monitor or
\* Window stream, no Virtual stream and no untyped stream whose id contains
\* "audio", split_streams succeeds and returns audio = none.
C11_NoAudioSourceGivesNoAudio ==
  [][VideoTypedNoVirtual /\ ~HasUntyped(frame.streams, TRUE)
       => ClassifiedVideoOnly]_vars

\* A granted list was classified as video only, and start() goes on to
\* duplicate the descriptor for the video source alone.
C11_Witness ==
  /\ op = "start" /\ pc = "dup_video" /\ ~frame.audio_stream
  /\ frame.streams = <<>> /\ ret = "pending"

\* start() is about to classify a list without a Monitor or Window stream.
NoVideoTyped ==
  /\ pc = "split_streams"
  /\ ~HasTyped(frame.streams, "Monitor") /\ ~HasTyped(frame.streams, "Window")

\* The classification failed with the no-video-stream error.
ClassifiedNoVideo == pc' = "idle" /\ ret' = "ErrNoVideo"

\* C12: for every granted list without a Monitor or Window stream (Virtual
\* and untyped streams allowed, the empty list included), split_streams
\* fails with the no-video-stream error.
C12_NoVideoTypedFails ==
  [][NoVideoTyped => ClassifiedNoVideo]_vars

\* C12 as amended: for every granted list without a Monitor or Window stream
\* and without an untyped stream whose id does not contain "audio" (the
\* empty list included), split_streams fails with the no-video-stream error.
C12_NoVideoSourceFails ==
  [][NoVideoTyped /\ ~HasUntyped(frame.streams, FALSE)
       => ClassifiedNoVideo]_vars

\* The classification of a list failed with the no-video-stream error.
C12_Witness == pc = "idle" /\ op = "start" /\ ret = "ErrNoVideo"

\* C10: when the portal advertises neither Monitor nor Window, start() fails
\* with the no-sources error and had created no portal session before.
C10_NoSessionBeforeNoSources ==
  Observable /\ op = "start" /\ ret = "ErrNoSources" => "session" \notin dropped

\* The pipeline description is built: create_pipeline goes from the launch to
\* the transition to Playing.
PipelineBuilt == pc = "launch" /\ pc' = "set_playing"

\* The descriptors in a record of descriptors.
FdsOf(rec) == {rec[k] : k \in DOMAIN rec} \ {None}

\* C21: when a pipeline is built, the source stages get the duplicates that
\* were made, one each: as many as there are stages (1 video only, 2 with
\* audio), all distinct, none the original handle, which stays with the
\* Recorder for as long as it holds the pipeline.
C21_OwnDuplicatePerStage ==
  /\ [](pipeline # None => remote_fd = pipeline)
  /\ [][PipelineBuilt =>
        LET made == {frame.video_fd, frame.audio_fd} \ {None}
            given == FdsOf(frame'.stages)
        IN /\ given = made
           /\ Cardinality(given) = (IF frame.audio_stream THEN 2 ELSE 1)
           /\ frame'.stages.video # None
           /\ frame.audio_stream =>
                /\ frame'.stages.audio # None
                /\ frame'.stages.audio # frame'.stages.video
           /\ as_raw_fd(frame.remote_fd) \notin given
           /\ frame.remote_fd # None /\ frame'.remote_fd = frame.remote_fd]_vars

\* A pipeline with a video and an audio source has been built.
C21_Witness ==
  /\ pc = "set_playing" /\ frame.stages.audio # None
  /\ frame.stages.video # None /\ frame.remote_fd # None

\* The reference classifier: which descriptors are video, which are audio.
RefIsVideo(s) ==
  \/ s.source_type \in {"Monitor", "Window"}
  \/ s.source_type = "None" /\ s.id # "audio"

RefIsAudio(s) ==
  \/ s.source_type = "Virtual"
  \/ s.source_type = "None" /\ s.id = "audio"

\* The last descriptor of the list among those at the positions idx, if any.
RefLast(list, idx) ==
  IF idx = {} THEN NoStream
  ELSE Some(list[CHOOSE i \in idx : \A j \in idx : j <= i])

\* The reference classifier: the last video and the last audio descriptor,
\* failing exactly when there is no video descriptor.
RefClassify(list) ==
  LET v == RefLast(list, {i \in 1..Len(list) : RefIsVideo(list[i])})
      a == RefLast(list, {i \in 1..Len(list) : RefIsAudio(list[i])})
  IN IF v = NoStream
       THEN [ok |-> FALSE, video |-> NoStream, audio |-> NoStream]
       ELSE [ok |-> TRUE, video |-> v, audio |-> a]

\* C22: for every granted list split_streams equals the reference classifier
\* (last video, last audio or none, failure exactly without a video
\* descriptor), and build_pipeline goes on or fails accordingly.
C22_SplitEqualsReference ==
  /\ [](pc = "split_streams" =>
          split_streams(frame.streams) = RefClassify(frame.streams))
  /\ [][pc = "split_streams" /\ pc' # pc =>
          LET ref == RefClassify(frame.streams)
          IN IF ref.ok
               THEN /\ pc' = "dup_video"
                    /\ frame'.audio_stream = (ref.audio # NoStream)
               ELSE pc' = "idle" /\ ret' = "ErrNoVideo"]_vars

\* A list of two different video descriptors is classified: the second wins.
C22_Witness ==
  /\ pc = "split_streams" /\ Len(frame.streams) = 2
  /\ RefIsVideo(frame.streams[1]) /\ RefIsVideo(frame.streams[2])
  /\ frame.streams[1] # frame.streams[2]
  /\ split_streams(frame.streams).video = Some(frame.streams[2])

\* The set the claim describes: Monitor and Window, plus Virtual when it is
\* advertised, restricted to what is advertised.
RefRequested(advertised) ==
  {t \in SourceTypes :
     /\ t \in advertised
     /\ t \in {"Monitor", "Window"} \/ (t = "Virtual" /\ "Virtual" \in advertised)}

\* C23: the requested set is the described one, a subset of the advertised
\* types, and the negotiation fails at the check, before select_sources,
\* exactly when it holds neither Monitor nor Window.
C23_RequestedWithinAdvertised ==
  [][pc = "request_types" /\ pc' # pc =>
       LET advertised == frame.available_types
           want == RefRequested(advertised)
       IN /\ want \subseteq advertised
          /\ IF "Monitor" \notin want /\ "Window" \notin want
               THEN pc' = "idle" /\ ret' = "ErrNoSources"
               ELSE /\ pc' = "select_sources"
                    /\ frame'.requested_types = want
                    /\ frame'.requested_types \subseteq advertised]_vars

\* Source selection is reached with Virtual requested next to a video type
\* while another video type was not advertised.
C23_Witness ==
  /\ pc = "select_sources"
  /\ "Virtual" \in frame.requested_types
  /\ frame.requested_types # SourceTypes

\* C24: a portal error at screencast.start() or at its response() becomes the
\* no-streams diagnostic exactly when it is the generic failure with "No
\* streams available" in its message, and is passed through unchanged
\* otherwise; either way no remote handle was opened and no pipeline built.
C24_PortalStartErrorTranslated ==
  [][(pc = "start_error" \/ pc = "response_error") /\ pc' # pc =>
       /\ pc' = "idle"
       /\ ret' = (IF frame.err = [kind |-> "Failed", no_streams |-> TRUE]
                    THEN "ErrNoStreams"
                    ELSE Into(frame.err))
       /\ (ret' = "ErrNoStreams") <=>
            (frame.err = [kind |-> "Failed", no_streams |-> TRUE])
       /\ frame.remote_fd = None /\ frame.pipeline = None
       /\ frame.video_fd = None /\ frame.audio_fd = None
       /\ pipeState[cur] = "none" /\ pipeState' = pipeState
       /\ ~opened[cur]
       /\ recorderVars' = recorderVars]_vars

\* start() returned the diagnostic for a failure of the start request.
C24_Witness ==
  /\ pc = "idle" /\ op = "start" /\ branch = "start_err"
  /\ ret = "ErrNoStreams"

\* The watcher r of the Recorder performs its swap and ends.
WatcherSwaps(r) == task[r] = "running" /\ task'[r] = "none"

\* The watcher r of the AudioRecorder performs its swap and ends.
AudioWatcherSwaps(r) == audio_task[r] = "running" /\ audio_task'[r] = "none"

\* C25: the swap of a watcher leaves the flag false and changes nothing else
\* of the Recorder, of its pipelines or of its files; it reports exactly when
\* the swap observed true; a sleeping or ended watcher changes no flag.
C25_WatcherOnlyClearsFlag ==
  [][/\ \A r \in Attempts :
          WatcherSwaps(r) =>
            /\ is_recording' = FALSE
            /\ <<pipeline, session, remote_fd, recording_path, start_time,
                 timeout_task>>' =
               <<pipeline, session, remote_fd, recording_path, start_time,
                 timeout_task>>
            /\ pipeVars' = pipeVars /\ fileVars' = fileVars
            /\ torn' = torn
            /\ (logged' # logged) => (is_recording /\ logged' = r)
            /\ is_recording => logged' = r
            /\ flips' = flips + (IF is_recording THEN 1 ELSE 0)
     /\ (\E r \in Attempts : task[r] = "sleeping" /\ task'[r] = "running") =>
          recorderVars' = recorderVars /\ logged' = logged]_vars

\* The same for the watcher of the AudioRecorder.
AudioWatcherOnlyClearsFlag ==
  [][\A r \in Attempts :
       AudioWatcherSwaps(r) =>
         /\ audio' = [audio EXCEPT !.is_recording = FALSE]
         /\ streamState' = streamState]_vars

\* A watcher cleared the flag of a recording whose fields are all in place,
\* and reported it.
C25_Witness ==
  /\ logged # None /\ task[logged] = "none" /\ ~is_recording
  /\ pipeline = logged /\ session # None /\ remote_fd # None
  /\ recording_path # None /\ start_time # None /\ flips > 0

\* The stop() in progress is finishing a recording whose flag its timeout
\* watcher had cleared before the call.
StopAfterTimeout ==
  /\ op = "stop" /\ ~entry.is_recording
  /\ entry.start_time # None /\ logged = entry.start_time

\* C26: a stop() that follows the timeout of its recording and finds a file
\* of length > 0 at the output path returns that path and leaves the file.
C26_TimeoutRecordingIsSaved ==
  [][/\ StopAfterTimeout
     /\ pc \in {"remove_stale", "metadata", "remove_empty"} /\ pc' = "idle"
     /\ file[frame.path] = "data"
     => /\ ret' = "Some" /\ ret_path' = frame.path
        /\ file'[frame.path] = "data"]_vars

\* C27: in the audio-only program save_recording gets from stop() all the
\* samples captured since start, a non-empty list whenever at least one
\* sample was captured, whichever of the checks of the loop and of the
\* recorder's watcher came first: it never finds nothing recorded while
\* samples were captured.
C27_SaveGetsAllSamples ==
  /\ acall.op = "nothing_recorded" => audio.samples = 0
  /\ acall.op = "saved" => acall.samples = audio.samples

\* The last call of the AudioRecorder was a start() that returned an error.
AudioStartFailed ==
  /\ acall.pc = "idle" /\ acall.op = "start"
  /\ acall.ret \in {"ErrBuildStream", "ErrPlayStream"}

\* C28: after a start() of the AudioRecorder that returned an error the flag
\* is false and no stream and no watcher are retained, so that the next
\* start() is not taken for a recording in progress.
C28_AudioFailedStartIsClean ==
  AudioStartFailed =>
    /\ ~audio.is_recording
    /\ audio.stream = None
    /\ audio.timeout_task = None

\* C29: once stop() of the AudioRecorder has returned, the stream is
\* released, the watcher handle is empty and the flag is false, whether the
\* flag was true at entry or the watcher had cleared it.
C29_AudioStopLeavesNothing ==
  acall.pc = "idle" /\ acall.op = "stop" =>
    /\ audio.stream = None
    /\ audio.timeout_task = None
    /\ ~audio.is_recording
    /\ \A r \in Attempts : streamState[r] = "none"

\* C30: when start() returns an error, nothing it acquired in that attempt
\* was dropped unreleased: the session it created was closed and every
\* descriptor it duplicated for a source stage was closed.
C30_FailedStartReleasesAll ==
  StartFailed =>
    /\ "session" \notin dropped
    /\ "video_fd" \notin dropped
    /\ "audio_fd" \notin dropped

\* The key handler has been cleaned up or dropped.
KeysCleanedUp == keys.cleanups > 0 \/ keys.pc = "exit"

\* C31: once the key handler has been cleaned up or dropped, no binding the
\* program registered is left in the compositor, whatever register_bindings
\* returned and however main ended, and a cleanup() called after the first
\* sends no command.
C31_NoBindingLeftBehind ==
  /\ KeysCleanedUp => keys.bound \cap keys.registered = {}
  /\ keys.cleanups > 1 => keys.sent = 0

\* The finishing action the run has begun: save_recording or
\* cancel_recording, by the trigger its branch of the loop was taken for.
FinishingKind(t) ==
  IF t \in SaveTriggers THEN "save_recording"
  ELSE IF t \in CancelTriggers THEN "cancel_recording" ELSE "none"

\* C32: a run of the event loop has at most one finishing action, exactly
\* one once main has left the loop; it is the one of the first trigger the
\* program received (save_recording for the Save key, the limit or the
\* cleared flag, cancel_recording for the Cancel key or a key error);
\* cleanup() of the key handler was called before it; cancel_recording
\* writes no file; and the recorder is stopped when it has returned.
C32_OneFinishingActionOfFirstTrigger ==
  /\ keys.finished <= 1
  /\ keys.pc \in {"stopping", "drop", "exit"} /\ keys.trigger # "none" =>
       keys.finished = 1
  /\ keys.finished = 1 =>
       /\ keys.cleanups >= 1
       /\ acall.trigger = keys.trigger
       /\ FinishingKind(keys.trigger) = FinishingKind(keys.first)
  /\ acall.op \in {"saved", "nothing_recorded"} =>
       acall.trigger \in SaveTriggers
  /\ keys.finished = 1 /\ FinishingDone => ~audio.is_recording

====
